---- MODULE Spec2Model ----
(***************************************************************************)
(* Model of the proctoring service (proctoring-service/app):               *)
(*   gaze.py   analyze_gaze, analyze_gaze_with_head_pose,                  *)
(*             process_frame_cv2, the shared face_mesh and its lock        *)
(*   utils.py  is_looking_away, the thresholds                             *)
(*   main.py   the /verify-gaze and /window endpoints, start_monitoring     *)
(*                                                                         *)
(* Units.  Angles are integers counting eighths of a degree (every such    *)
(* value is an exact binary float, so round(a, 2) is the exact             *)
(* round-half-even of Python); the yaw and pitch of a result are integers  *)
(* counting hundredths of a degree.  Landmark coordinates are integers     *)
(* counting 0.004 of the image width or height.                            *)
(*                                                                         *)
(* A frame is described by what the external collaborators make of it:     *)
(*   b64    whether base64.b64decode accepts the text                      *)
(*   img    "ok" a decodable image, "corrupt" bytes that are no image,     *)
(*          "empty" a zero-length buffer                                   *)
(*   det    "raise" when face_mesh.process raises on the frame             *)
(*   face   0 when the frame shows no face, else the region (1..NumRegions)*)
(*          of the image the face is in; regions are far apart             *)
(*   lm     the landmark set the detector returns for the face             *)
(*   solve  what cv2.solvePnP does with the six correspondences:           *)
(*          "ok" success, "fail" success = False with a rot_vec written,   *)
(*          "fail_empty" success = False and no rot_vec, "raise" cv2.error *)
(*   yaw, pitch  angles[1] * 360 and angles[0] * 360 of the rot_vec        *)
(***************************************************************************)
EXTENDS Integers, FiniteSets, Sequences, TLC

VARIABLES
    pc,             \* per worker thread: where it is in its call
    fn,             \* per worker thread: the entry point it runs
    frame,          \* per worker thread: the frame it was given
    found,          \* per worker thread: results.multi_face_landmarks is non-empty
    exc,            \* per worker thread: the exception raised during the call, or "none"
    called,         \* per worker thread: is_looking_away was called during the call
    result,         \* per worker thread: what the analysis function returned
    response,       \* per worker thread: what the caller of the entry point receives
    face_mesh_lock, \* 0 when free, else the thread holding it
    tracked,        \* face_mesh's retained state: 0, or the region it tracks a face in
    memo,           \* an earlier call kept for comparison: its fn, frame and response
    lmIn,           \* the landmark set given to is_looking_away on its own
    lmOut,          \* <<>>, then <<b>> once is_looking_away has returned b for it
    mpc,            \* start_monitoring: position in the function
    cap,            \* start_monitoring: the camera, "closed", "opened" or "released"
    allowed,        \* start_monitoring: allowed_window, allowed_title, allowed_pid
    fg,             \* the process whose window is in the foreground, 0 for none
    title,          \* per process: the title of its window
    alive,          \* the running processes
    image,          \* start_monitoring: the frame read in this iteration
    mresult,        \* start_monitoring: the last result of process_frame_cv2
    violation_count,\* start_monitoring: violation_count
    shown,          \* start_monitoring: cv2.imshow has created the monitor window
    keyQ,           \* a press of 'q' is waiting for cv2.waitKey
    wcheck,         \* start_monitoring: what the last window check saw and called
    lastTerminate,  \* the service's last terminate() calls, and the allowed process then
    windows_available,    \* WINDOWS_AVAILABLE
    allowed_window_store, \* main.py: allowed_window_store, 0 standing for None
    sa,             \* /window/set-allowed in progress: the window it read, or idle
    wresp           \* the last response of a /window endpoint

vars == <<pc, fn, frame, found, exc, called, result, response, face_mesh_lock,
          tracked, memo, lmIn, lmOut, mpc, cap, allowed, fg, title, alive, image,
          mresult, violation_count, shown, keyQ, wcheck, lastTerminate,
          windows_available, allowed_window_store, sa, wresp>>

callVars == <<pc, fn, frame, found, exc, called, result, response, face_mesh_lock>>
gazeVars == <<callVars, tracked, memo>>
ratioVars == <<lmIn, lmOut>>
monVars == <<mpc, cap, allowed, fg, title, alive, image, mresult, violation_count, shown, keyQ>>
storeVars == <<windows_available, allowed_window_store, sa, wresp>>
winVars == <<wcheck, lastTerminate, storeVars>>

----------------------------------------------------------------------------
(* Bounds of the model *)

NumThreads == 2
NumRegions == 2
AngleSpread == 1
MaxCoord == 5
MaxCount == 2
NumPids == 2

(* utils.py *)
YAW_THRESHOLD == 20
PITCH_THRESHOLD == 15
\* 0.016 of utils.py line 32, in coordinate units of 0.004
LOOK_AWAY_THRESHOLD == 4
NOSE == 1
LEFT_EYE == <<33, 133>>
RIGHT_EYE == <<362, 263>>

Threads == 1..NumThreads
Abs(n) == IF n < 0 THEN -n ELSE n
Deg(d) == 8 * d

----------------------------------------------------------------------------
(* utils.py: is_looking_away *)

LandmarkIdx == {1, 33, 133, 263, 362}

\* Variant: the comparison is not strict.
is_looking_away_ge(landmarks) ==
    LET left == landmarks[LEFT_EYE[1]]
        right == landmarks[RIGHT_EYE[2]]
        nose == landmarks[NOSE]
        eye_mid_x2 == left.x + right.x
    IN  Abs(2 * nose.x - eye_mid_x2) >= 2 * LOOK_AWAY_THRESHOLD

\* abs(nose.x - (left.x + right.x) / 2) > 0.016, both sides doubled so that the
\* midpoint of two integer coordinates stays an integer.
is_looking_away(landmarks) ==
    LET left == landmarks[LEFT_EYE[1]]
        right == landmarks[RIGHT_EYE[2]]
        nose == landmarks[NOSE]
        eye_mid_x2 == left.x + right.x
    IN  Abs(2 * nose.x - eye_mid_x2) > 2 * LOOK_AWAY_THRESHOLD

Pt(x, y) == [x |-> x, y |-> y]

\* A landmark set with the nose at nx and the outer eye corners at lx and rx.
Landmarks(nx, lx, rx) ==
    [i \in LandmarkIdx |->
        CASE i = 1 -> Pt(nx, 3)
          [] i = 33 -> Pt(lx, 2)
          [] i = 263 -> Pt(rx, 2)
          [] i = 133 -> Pt(lx + 1, 2)
          [] i = 362 -> Pt(rx - 1, 2)]

NoLandmarks == Landmarks(0, 0, 0)
CentredLandmarks == Landmarks(3, 1, 5)
TurnedLandmarks == Landmarks(5, 0, 1)

----------------------------------------------------------------------------
(* gaze.py: the head-pose classification, lines 89-113 and 170-208 *)

\* round(a, 2) of an angle a given in eighths of a degree, in hundredths:
\* a * 12.5 rounded half to even.
Round2(a) ==
    LET n == a * 25
        lo == (n - (n % 2)) \div 2
    IN  IF n % 2 = 0 THEN lo
        ELSE IF lo % 2 = 0 THEN lo ELSE lo + 1

Branch(direction, violation) == [direction |-> direction, violation |-> violation]

\* Variant: the pitch branches come before the yaw branches.
ClassifyPitchFirst(y_angle, x_angle) ==
    IF x_angle < -Deg(PITCH_THRESHOLD) THEN Branch("looking_down", TRUE)
    ELSE IF x_angle > Deg(PITCH_THRESHOLD) THEN Branch("looking_up", TRUE)
    ELSE IF y_angle < -Deg(YAW_THRESHOLD) THEN Branch("looking_left", TRUE)
    ELSE IF y_angle > Deg(YAW_THRESHOLD) THEN Branch("looking_right", TRUE)
    ELSE Branch("focused", FALSE)

\* Variant: the looking_up branch leaves violation False.
ClassifyUpUnflagged(y_angle, x_angle) ==
    IF y_angle < -Deg(YAW_THRESHOLD) THEN Branch("looking_left", TRUE)
    ELSE IF y_angle > Deg(YAW_THRESHOLD) THEN Branch("looking_right", TRUE)
    ELSE IF x_angle < -Deg(PITCH_THRESHOLD) THEN Branch("looking_down", TRUE)
    ELSE IF x_angle > Deg(PITCH_THRESHOLD) THEN Branch("looking_up", FALSE)
    ELSE Branch("focused", FALSE)

\* direction and violation as the if/elif chain sets them, from y_angle (yaw)
\* and x_angle (pitch).
Classify(y_angle, x_angle) ==
    IF y_angle < -Deg(YAW_THRESHOLD) THEN Branch("looking_left", TRUE)
    ELSE IF y_angle > Deg(YAW_THRESHOLD) THEN Branch("looking_right", TRUE)
    ELSE IF x_angle < -Deg(PITCH_THRESHOLD) THEN Branch("looking_down", TRUE)
    ELSE IF x_angle > Deg(PITCH_THRESHOLD) THEN Branch("looking_up", TRUE)
    ELSE Branch("focused", FALSE)

\* The text process_frame_cv2 writes on the image.
Overlay(direction) ==
    CASE direction = "looking_left" -> "WARNING: Looking Left!"
      [] direction = "looking_right" -> "WARNING: Looking Right!"
      [] direction = "looking_down" -> "WARNING: Looking Down!"
      [] direction = "looking_up" -> "WARNING: Looking Up!"
      [] OTHER -> "Focused"

----------------------------------------------------------------------------
(* Frames *)

Frame(b64, img, det, face, lm, solve, yaw, pitch) ==
    [b64 |-> b64, img |-> img, det |-> det, face |-> face, lm |-> lm,
     solve |-> solve, yaw |-> yaw, pitch |-> pitch]

Spread == (-AngleSpread)..AngleSpread
Yaws == {s * Deg(YAW_THRESHOLD) + d : s \in {-1, 0, 1}, d \in Spread}
Pitches == {s * Deg(PITCH_THRESHOLD) + d : s \in {-1, 0, 1}, d \in Spread}
Regions == 1..NumRegions

BadBase64Frame == Frame(FALSE, "corrupt", "ok", 0, NoLandmarks, "ok", 0, 0)
CorruptFrame == Frame(TRUE, "corrupt", "ok", 0, NoLandmarks, "ok", 0, 0)
EmptyFrame == Frame(TRUE, "empty", "ok", 0, NoLandmarks, "ok", 0, 0)
DetectRaiseFrame == Frame(TRUE, "ok", "raise", 0, NoLandmarks, "ok", 0, 0)
NoFaceFrame == Frame(TRUE, "ok", "ok", 0, NoLandmarks, "ok", 0, 0)

FaceFrames ==
    {Frame(TRUE, "ok", "ok", r, lm, s, y, p) :
        r \in Regions, lm \in {CentredLandmarks, TurnedLandmarks},
        s \in {"ok", "fail"}, y \in Yaws, p \in Pitches}
    \cup {Frame(TRUE, "ok", "ok", r, CentredLandmarks, s, 0, 0) :
        r \in Regions, s \in {"fail_empty", "raise"}}

\* The frames of the sequential specification.
Frames ==
    {BadBase64Frame, CorruptFrame, EmptyFrame, DetectRaiseFrame, NoFaceFrame}
    \cup FaceFrames

\* The frames of the concurrent specification: one focused face per region,
\* a turned face, a frame without a face and two frames that fail.
FewFrames ==
    {CorruptFrame, DetectRaiseFrame, NoFaceFrame,
     Frame(TRUE, "ok", "ok", 1, TurnedLandmarks, "ok", -Deg(YAW_THRESHOLD) - 1, 0)}
    \cup {Frame(TRUE, "ok", "ok", r, CentredLandmarks, "ok", 0, 0) : r \in Regions}

----------------------------------------------------------------------------
(* gaze.py and main.py: what the entry points return *)

Fns == {"verify_gaze", "verify_gaze_enhanced", "process_frame_cv2"}
HeadPoseFns == {"verify_gaze_enhanced", "process_frame_cv2"}

NoValue == [none |-> TRUE]
Raised(e) == [raised |-> e]
IsRaised(r) == "raised" \in DOMAIN r

\* b64decode and imdecode of the text (gaze.py 20-21, 47-48).  imdecode of a
\* zero-length buffer returns None or raises cv2.error, depending on the build.
DecodeOutcomes(f) ==
    IF ~f.b64 THEN {"binascii.Error"}
    ELSE CASE f.img = "ok" -> {"image"}
           [] f.img = "corrupt" -> {"none"}
           [] f.img = "empty" -> {"none", "cv2.error"}

\* cv2.flip and cv2.cvtColor of the frame handed to process_frame_cv2
\* (gaze.py 128-129): cv2.error for a frame that is no image.
FlipOutcomes(f) == IF f.img = "ok" THEN {"image"} ELSE {"cv2.error"}

\* The return for an image that did not decode (gaze.py 24-26, 50-51).
DecodeFailed(f) ==
    IF f = "verify_gaze" THEN [value |-> FALSE]
    ELSE [violation |-> FALSE, direction |-> "unknown",
          error |-> "Failed to decode image"]

\* Variant: the handlers are `except ValueError`.
CatchesOnlyValueError(e) == e = "ValueError"

\* Whether the function's own handler catches e: `except Exception`, and every
\* exception of the model derives from Exception.
Catches(e) == TRUE

\* The handlers' returns (gaze.py 36-38, 117-119, 218-225).
ErrorReturn(f, e) ==
    CASE f = "verify_gaze" -> [value |-> FALSE]
      [] f = "verify_gaze_enhanced" ->
            [violation |-> FALSE, direction |-> "error", error |-> e]
      [] f = "process_frame_cv2" ->
            [violation |-> FALSE, direction |-> "error", image |-> "", error |-> e]

OnException(f, e) == IF Catches(e) THEN ErrorReturn(f, e) ELSE Raised(e)

\* Variant: an empty multi_face_landmarks falls through to the last return.
NoFaceFocused(f) ==
    CASE f = "verify_gaze" -> [value |-> TRUE]
      [] f = "verify_gaze_enhanced" ->
            [violation |-> FALSE, direction |-> "focused", yaw |-> 0, pitch |-> 0]
      [] f = "process_frame_cv2" ->
            [violation |-> FALSE, direction |-> "focused", image |-> "",
             yaw |-> 0, pitch |-> 0]

\* The return when results.multi_face_landmarks is empty (gaze.py 32-33, 61-62,
\* 136-143).
NoFaceReturn(f) ==
    CASE f = "verify_gaze" -> [value |-> FALSE]
      [] f = "verify_gaze_enhanced" ->
            [violation |-> FALSE, direction |-> "no_face", yaw |-> 0, pitch |-> 0]
      [] f = "process_frame_cv2" ->
            [violation |-> FALSE, direction |-> "no_face", image |-> "",
             yaw |-> 0, pitch |-> 0]

\* The return for a solved pose (gaze.py 108-113, 194-208).
PoseReturn(f, y_angle, x_angle) ==
    LET c == Classify(y_angle, x_angle)
    IN  IF f = "verify_gaze_enhanced"
        THEN [violation |-> c.violation, direction |-> c.direction,
              yaw |-> Round2(y_angle), pitch |-> Round2(x_angle)]
        ELSE [violation |-> c.violation, direction |-> c.direction,
              image |-> Overlay(c.direction),
              yaw |-> Round2(y_angle), pitch |-> Round2(x_angle)]

\* solvePnP, Rodrigues and RQDecomp3x3 on the face's landmarks (gaze.py 85-90,
\* 166-171): the exception raised, or "none".  The success flag is not read.
SolveException(fr) ==
    CASE fr.solve = "raise" -> "cv2.error"
      [] fr.solve = "fail_empty" -> "cv2.error"
      [] OTHER -> "none"

\* The exception raised between the detector's results and the return.
AnalyseException(f, fr, fnd) ==
    IF fnd /\ f \in HeadPoseFns THEN SolveException(fr) ELSE "none"

\* Whether is_looking_away is called (gaze.py 32-35).
CallsRatio(f, fnd) == f = "verify_gaze" /\ fnd

\* What the function returns once the detector's results are in, fnd telling
\* whether multi_face_landmarks holds a face (gaze.py 32-38, 59-119, 134-225).
AnalyseReturn(f, fr, fnd) ==
    IF ~fnd THEN NoFaceReturn(f)
    ELSE IF f = "verify_gaze" THEN [value |-> is_looking_away(fr.lm)]
    ELSE IF SolveException(fr) # "none" THEN OnException(f, SolveException(fr))
    ELSE PoseReturn(f, fr.yaw, fr.pitch)

\* The endpoints of main.py (47-74) around the analysis functions;
\* process_frame_cv2 is called directly.
Endpoint(f, r) ==
    CASE f = "verify_gaze" ->
            IF IsRaised(r) THEN [violation |-> FALSE, looking_away |-> FALSE]
            ELSE [violation |-> r.value, looking_away |-> r.value]
      [] f = "verify_gaze_enhanced" ->
            IF IsRaised(r)
            THEN [violation |-> FALSE, direction |-> "error", error |-> r.raised]
            ELSE r
      [] f = "process_frame_cv2" -> r

\* face_mesh.process on the shared FaceMesh(static_image_mode=False,
\* max_num_faces=1): without a tracked face it runs detection on the whole
\* image; with one it looks for the landmarks in the tracked region only and,
\* finding no face there, reports none and drops the track.
FaceMeshProcess(f, trk) ==
    IF trk = 0 THEN [found |-> f.face # 0, tracked |-> f.face]
    ELSE IF f.face = trk THEN [found |-> TRUE, tracked |-> trk]
    ELSE [found |-> FALSE, tracked |-> 0]

----------------------------------------------------------------------------
(* The calls of the worker threads *)

\* Variant: the with block is entered without waiting for the lock.
CanAcquireAlways(t) == TRUE

\* threading.Lock: acquired only when free (gaze.py 29, 56, 131).
CanAcquire(t) == face_mesh_lock = 0

\* Thread t's call of f ends with the analysis function returning r (or
\* raising, when r is Raised) after exception e ("none": no exception).
Returns(t, f, r, e) ==
    /\ pc' = [pc EXCEPT ![t] = "done"]
    /\ result' = [result EXCEPT ![t] = r]
    /\ response' = [response EXCEPT ![t] = Endpoint(f, r)]
    /\ exc' = [exc EXCEPT ![t] = e]

Throws(t, f, e) == Returns(t, f, OnException(f, e), e)

\* The entry point is called with a frame and runs up to the lock:
\* gaze.py 19-28, 46-54, 127-129.
Call(t, F) ==
    /\ pc[t] = "idle"
    /\ \E f \in Fns, fr \in F :
        /\ f = "process_frame_cv2" => fr.b64
        /\ fn' = [fn EXCEPT ![t] = f]
        /\ frame' = [frame EXCEPT ![t] = fr]
        /\ \E o \in (IF f = "process_frame_cv2" THEN FlipOutcomes(fr)
                     ELSE DecodeOutcomes(fr)) :
            CASE o = "image" ->
                    /\ pc' = [pc EXCEPT ![t] = "acquire"]
                    /\ UNCHANGED <<result, response, exc>>
              [] o = "none" -> Returns(t, f, DecodeFailed(f), "none")
              [] OTHER -> Throws(t, f, o)
    /\ UNCHANGED <<found, called, face_mesh_lock, tracked, memo>>
    /\ UNCHANGED <<ratioVars, monVars, winVars>>

\* `with face_mesh_lock:` is entered.
Acquire(t) ==
    /\ pc[t] = "acquire"
    /\ CanAcquire(t)
    /\ face_mesh_lock' = t
    /\ pc' = [pc EXCEPT ![t] = "process"]
    /\ UNCHANGED <<fn, frame, found, exc, called, result, response, tracked, memo>>
    /\ UNCHANGED <<ratioVars, monVars, winVars>>

\* face_mesh.process returns or raises, and the with block is left, which
\* releases the lock either way (gaze.py 29-30, 56-57, 131-132).
Process(t) ==
    /\ pc[t] = "process"
    /\ face_mesh_lock' = 0
    /\ IF frame[t].det = "raise"
       THEN /\ Throws(t, fn[t], "RuntimeError")
            /\ UNCHANGED <<found, tracked>>
       ELSE LET d == FaceMeshProcess(frame[t], tracked)
            IN  /\ found' = [found EXCEPT ![t] = d.found]
                /\ tracked' = d.tracked
                /\ pc' = [pc EXCEPT ![t] = "analyse"]
                /\ UNCHANGED <<result, response, exc>>
    /\ UNCHANGED <<fn, frame, called, memo>>
    /\ UNCHANGED <<ratioVars, monVars, winVars>>

\* The rest of the function, from the detector's results to the return:
\* gaze.py 32-38, 59-119, 134-225.
Analyse(t) ==
    /\ pc[t] = "analyse"
    /\ called' = [called EXCEPT ![t] = CallsRatio(fn[t], found[t])]
    /\ Returns(t, fn[t], AnalyseReturn(fn[t], frame[t], found[t]),
               AnalyseException(fn[t], frame[t], found[t]))
    /\ UNCHANGED <<fn, frame, found, face_mesh_lock, tracked, memo>>
    /\ UNCHANGED <<ratioVars, monVars, winVars>>

\* The caller has its response; the thread is free for the next request.
Return(t) ==
    /\ pc[t] = "done"
    /\ pc' = [pc EXCEPT ![t] = "idle"]
    /\ fn' = [fn EXCEPT ![t] = "none"]
    /\ frame' = [frame EXCEPT ![t] = NoValue]
    /\ found' = [found EXCEPT ![t] = FALSE]
    /\ exc' = [exc EXCEPT ![t] = "none"]
    /\ called' = [called EXCEPT ![t] = FALSE]
    /\ result' = [result EXCEPT ![t] = NoValue]
    /\ response' = [response EXCEPT ![t] = NoValue]
    /\ UNCHANGED <<face_mesh_lock, tracked, memo>>
    /\ UNCHANGED <<ratioVars, monVars, winVars>>

NoMemo == [fn |-> "none", frame |-> NoValue, response |-> NoValue]

\* A finished call is kept, to be compared with later calls on the same frame.
Remember(t) ==
    /\ pc[t] = "done"
    /\ memo' = [fn |-> fn[t], frame |-> frame[t], response |-> response[t]]
    /\ UNCHANGED <<callVars, tracked>>
    /\ UNCHANGED <<ratioVars, monVars, winVars>>

InitGaze ==
    /\ pc = [t \in Threads |-> "idle"]
    /\ fn = [t \in Threads |-> "none"]
    /\ frame = [t \in Threads |-> NoValue]
    /\ found = [t \in Threads |-> FALSE]
    /\ exc = [t \in Threads |-> "none"]
    /\ called = [t \in Threads |-> FALSE]
    /\ result = [t \in Threads |-> NoValue]
    /\ response = [t \in Threads |-> NoValue]
    /\ face_mesh_lock = 0
    /\ tracked = 0
    /\ memo = NoMemo

----------------------------------------------------------------------------
(* is_looking_away on its own *)

Coord == 0..MaxCoord

\* The landmark sets tried: the three landmarks the function reads anywhere
\* on the grid, the inner eye corners at either edge.
LandmarkSets ==
    {[i \in LandmarkIdx |->
        CASE i = 1 -> n
          [] i = 33 -> l
          [] i = 263 -> r
          [] i = 133 -> Pt(a, 0)
          [] i = 362 -> Pt(b, 0)] :
        n \in [x : Coord, y : 0..1], l \in [x : Coord, y : 0..1],
        r \in [x : Coord, y : 0..1],
        a \in {0, MaxCoord}, b \in {0, MaxCoord}}

\* No landmark set is under test.
IdleRatio ==
    /\ lmIn = <<>>
    /\ lmOut = <<>>

\* Any landmark set of the grid is under test.
InitRatio ==
    /\ lmIn \in LandmarkSets
    /\ lmOut = <<>>

Evaluate ==
    /\ lmOut = <<>>
    /\ lmOut' = <<is_looking_away(lmIn)>>
    /\ UNCHANGED lmIn
    /\ UNCHANGED <<gazeVars, monVars, winVars>>

----------------------------------------------------------------------------
(* main.py: start_monitoring, and the desktop it watches *)

Pids == 1..NumPids
Titles == 1..NumPids

\* The frames the camera delivers.
CameraFrames ==
    {NoFaceFrame,
     Frame(TRUE, "ok", "ok", 1, CentredLandmarks, "ok", 0, 0),
     Frame(TRUE, "ok", "ok", 1, TurnedLandmarks, "ok", Deg(YAW_THRESHOLD) + 1, 0)}

InitMon ==
    /\ mpc = "start"
    /\ cap = "closed"
    /\ allowed = [window |-> 0, title |-> 0, pid |-> 0]
    /\ fg = 1
    /\ title = [p \in Pids |-> p]
    /\ alive = Pids
    /\ image = NoValue
    /\ mresult = NoValue
    /\ violation_count = 0
    /\ shown = FALSE
    /\ keyQ = FALSE

NoCheck == [pid |-> 0, kill |-> 0, activate |-> FALSE]
NoTerminate == [by |-> "none", pids |-> {}, allowed |-> 0]
NoStore == [title |-> 0, pid |-> 0, window |-> 0]
IdleSetAllowed == [pc |-> "idle", window |-> 0]

\* The module globals of main.py (line 78) and the bookkeeping of the calls
\* made on the desktop.  The store's window field is not in the code: it
\* remembers which window's title was stored.
InitStore ==
    /\ wcheck = NoCheck
    /\ lastTerminate = NoTerminate
    /\ allowed_window_store = NoStore
    /\ sa = IdleSetAllowed
    /\ wresp = NoValue

\* get_active_window_pid (utils.py 37-46): the foreground window's process, or
\* None (0) when the lookup fails or there is no window.
ActivePids == IF fg = 0 THEN {0} ELSE {fg, 0}

\* Lines 356-364: the platform check and the camera.
MonOpen ==
    /\ mpc = "start"
    /\ \E available \in {windows_available}, opened \in BOOLEAN :
        IF available /\ opened
        THEN cap' = "opened" /\ mpc' = "lock"
        ELSE cap' = cap /\ mpc' = "returned"
    /\ UNCHANGED <<allowed, fg, title, alive, image, mresult, violation_count, shown, keyQ>>
    /\ UNCHANGED <<gazeVars, ratioVars, winVars>>

\* Lines 370-393: after the countdown the foreground window becomes the
\* allowed window.
MonLock ==
    /\ mpc = "lock"
    /\ IF fg = 0
       THEN /\ cap' = "released"
            /\ mpc' = "returned"
            /\ UNCHANGED allowed
       ELSE /\ \E p \in ActivePids :
                allowed' = [window |-> fg, title |-> title[fg], pid |-> p]
            /\ mpc' = "loop"
            /\ UNCHANGED cap
    /\ UNCHANGED <<fg, title, alive, image, mresult, violation_count, shown, keyQ>>
    /\ UNCHANGED <<gazeVars, ratioVars, winVars>>

\* Line 395: the loop test, cap.isOpened().
MonLoopTest ==
    /\ mpc = "loop"
    /\ mpc' = IF cap = "opened" THEN "read" ELSE "end"
    /\ UNCHANGED <<cap, allowed, fg, title, alive, image, mresult, violation_count, shown, keyQ>>
    /\ UNCHANGED <<gazeVars, ratioVars, winVars>>

\* Lines 396-398: cap.read(); a failed read goes straight back to the loop
\* test.
MonRead ==
    /\ mpc = "read"
    /\ \E success \in BOOLEAN :
        IF success
        THEN /\ \E fr \in CameraFrames : image' = fr
             /\ mpc' = "window"
        ELSE /\ UNCHANGED image
             /\ mpc' = "loop"
    /\ UNCHANGED <<cap, allowed, fg, title, alive, mresult, violation_count, shown, keyQ>>
    /\ UNCHANGED <<gazeVars, ratioVars, winVars>>

\* kill_process_by_pid (utils.py 57-66): the process is terminated, or
\* psutil refuses and nothing changes.
KillOutcomes(p) == IF p \in alive THEN {alive \ {p}, alive} ELSE {alive}

\* The test of lines 404-405 on the foreground window and current_pid.
IsSwitch(current_pid) ==
    /\ current_pid # 0
    /\ current_pid # allowed.pid
    /\ fg # 0
    /\ title[fg] # allowed.title

\* Lines 400-408: the window check, with kill_process_by_pid and
\* activate_window (utils.py 68-76).
MonWindow ==
    /\ mpc = "window"
    /\ \E current_pid \in ActivePids :
        IF IsSwitch(current_pid)
        THEN /\ \E left \in KillOutcomes(current_pid), activated \in BOOLEAN :
                /\ alive' = left
                /\ fg' = IF activated /\ allowed.window \in left THEN allowed.window
                         ELSE IF fg \in left THEN fg
                         ELSE 0
             /\ wcheck' = [pid |-> current_pid, kill |-> current_pid, activate |-> TRUE]
             /\ lastTerminate' = [by |-> "monitor", pids |-> {current_pid},
                                  allowed |-> allowed.window]
        ELSE /\ UNCHANGED <<alive, fg, lastTerminate>>
             /\ wcheck' = [pid |-> current_pid, kill |-> 0, activate |-> FALSE]
    /\ mpc' = "classify"
    /\ UNCHANGED <<cap, allowed, title, image, mresult, violation_count, shown, keyQ>>
    /\ UNCHANGED <<gazeVars, ratioVars, storeVars>>

\* process_frame_cv2 run to its end by the one thread of the standalone mode.
ProcessFrame(fr, trk) ==
    IF FlipOutcomes(fr) # {"image"}
    THEN [ret |-> OnException("process_frame_cv2", "cv2.error"), tracked |-> trk]
    ELSE IF fr.det = "raise"
    THEN [ret |-> OnException("process_frame_cv2", "RuntimeError"), tracked |-> trk]
    ELSE LET d == FaceMeshProcess(fr, trk)
         IN  [ret |-> AnalyseReturn("process_frame_cv2", fr, d.found),
              tracked |-> d.tracked]

\* Lines 410-417: the frame is classified and violations are counted; the
\* count stops at MaxCount.
MonClassify ==
    /\ mpc = "classify"
    /\ LET r == ProcessFrame(image, tracked)
       IN  /\ mresult' = r.ret
           /\ tracked' = r.tracked
           /\ violation_count' =
                IF r.ret.violation /\ violation_count < MaxCount
                THEN violation_count + 1
                ELSE violation_count
    /\ mpc' = "display"
    /\ UNCHANGED <<cap, allowed, fg, title, alive, image, shown, keyQ>>
    /\ UNCHANGED <<callVars, memo, ratioVars, winVars>>

\* Line 419: cv2.imshow.
MonDisplay ==
    /\ mpc = "display"
    /\ shown' = TRUE
    /\ mpc' = "waitkey"
    /\ UNCHANGED <<cap, allowed, fg, title, alive, image, mresult, violation_count, keyQ>>
    /\ UNCHANGED <<gazeVars, ratioVars, winVars>>

\* Lines 421-422: cv2.waitKey(5) takes a waiting 'q' and leaves the loop.
MonWaitKey ==
    /\ mpc = "waitkey"
    /\ IF keyQ
       THEN keyQ' = FALSE /\ mpc' = "end"
       ELSE keyQ' = keyQ /\ mpc' = "loop"
    /\ UNCHANGED <<cap, allowed, fg, title, alive, image, mresult, violation_count, shown>>
    /\ UNCHANGED <<gazeVars, ratioVars, winVars>>

\* Lines 424-426: the camera is released.
MonEnd ==
    /\ mpc = "end"
    /\ cap' = "released"
    /\ mpc' = "done"
    /\ UNCHANGED <<allowed, fg, title, alive, image, mresult, violation_count, shown, keyQ>>
    /\ UNCHANGED <<gazeVars, ratioVars, winVars>>

\* The user presses 'q' in the monitor window.
PressQ ==
    /\ shown
    /\ mpc \notin {"done", "returned"}
    /\ ~keyQ
    /\ keyQ' = TRUE
    /\ UNCHANGED <<mpc, cap, allowed, fg, title, alive, image, mresult, violation_count, shown>>
    /\ UNCHANGED <<gazeVars, ratioVars, winVars>>

\* The user brings another window to the foreground, or none.
SwitchWindow ==
    /\ mpc \notin {"done", "returned"}
    /\ \E w \in alive \cup {0} :
        /\ w # fg
        /\ fg' = w
    /\ UNCHANGED <<mpc, cap, allowed, title, alive, image, mresult, violation_count, shown, keyQ>>
    /\ UNCHANGED <<gazeVars, ratioVars, winVars>>

\* A window changes its title (a page load in the test browser).
Retitle ==
    /\ mpc \notin {"done", "returned"}
    /\ \E p \in alive, n \in Titles :
        /\ n # title[p]
        /\ title' = [title EXCEPT ![p] = n]
    /\ UNCHANGED <<mpc, cap, allowed, fg, alive, image, mresult, violation_count, shown, keyQ>>
    /\ UNCHANGED <<gazeVars, ratioVars, winVars>>

----------------------------------------------------------------------------
(* main.py: the /window endpoints *)

deskVars == <<fg, title, alive>>
loopVars == <<mpc, cap, allowed, image, mresult, violation_count, shown, keyQ, wcheck>>

\* Lines 83-91 of set_allowed_window: the platform check and
\* get_active_window(), which gives the foreground window, or None.
SetAllowedRead ==
    /\ sa.pc = "idle"
    /\ IF ~windows_available
       THEN /\ wresp' = [op |-> "set-allowed", success |-> FALSE,
                         windows_available |-> FALSE]
            /\ UNCHANGED sa
       ELSE /\ \E w \in {fg, 0} : sa' = [pc |-> "pid", window |-> w]
            /\ UNCHANGED wresp
    /\ UNCHANGED <<allowed_window_store, windows_available, lastTerminate>>
    /\ UNCHANGED <<gazeVars, ratioVars, deskVars, loopVars>>

\* Lines 92-107 of set_allowed_window: get_active_window_pid(), the None
\* check, and the two assignments to the store.
SetAllowedStore ==
    /\ sa.pc = "pid"
    /\ \E pid \in ActivePids :
        IF sa.window = 0
        THEN /\ wresp' = [op |-> "set-allowed", success |-> FALSE]
             /\ UNCHANGED allowed_window_store
        ELSE /\ allowed_window_store' =
                    [title |-> title[sa.window], pid |-> pid, window |-> sa.window]
             /\ wresp' = [op |-> "set-allowed", success |-> TRUE,
                          allowed_window |-> title[sa.window], allowed_pid |-> pid]
    /\ sa' = IdleSetAllowed
    /\ UNCHANGED <<windows_available, lastTerminate>>
    /\ UNCHANGED <<gazeVars, ratioVars, deskVars, loopVars>>

\* What the handlers test to decide whether an allowed window is set:
\* window_status line 167, check_window line 120, close_other_windows line 193.
MonitoringActive == allowed_window_store.title # 0
CheckTreatsSet == allowed_window_store.title # 0
CloseOthersTreatsSet == allowed_window_store.pid # 0

\* check_window, lines 110-157.
CheckWindow ==
    /\ \E current_pid \in ActivePids :
        wresp' =
            IF ~windows_available
            THEN [op |-> "check", violation |-> FALSE, windows_available |-> FALSE]
            ELSE IF ~CheckTreatsSet
            THEN [op |-> "check", violation |-> FALSE,
                  message |-> "No allowed window set"]
            ELSE IF fg = 0
            THEN [op |-> "check", violation |-> FALSE, current_window |-> 0]
            ELSE [op |-> "check",
                  violation |-> (current_pid # allowed_window_store.pid
                                 /\ title[fg] # allowed_window_store.title),
                  current_window |-> title[fg], current_pid |-> current_pid]
    /\ UNCHANGED <<allowed_window_store, windows_available, sa, lastTerminate>>
    /\ UNCHANGED <<gazeVars, ratioVars, deskVars, loopVars>>

\* window_status, lines 160-168.
WindowStatus ==
    /\ wresp' = [op |-> "status", windows_available |-> windows_available,
                 allowed_window |-> allowed_window_store.title,
                 allowed_pid |-> allowed_window_store.pid,
                 monitoring_active |-> MonitoringActive]
    /\ UNCHANGED <<allowed_window_store, windows_available, sa, lastTerminate>>
    /\ UNCHANGED <<gazeVars, ratioVars, deskVars, loopVars>>

\* reset_window_monitoring, lines 171-176.
ResetWindow ==
    /\ allowed_window_store' = NoStore
    /\ wresp' = [op |-> "reset", success |-> TRUE]
    /\ UNCHANGED <<windows_available, sa, lastTerminate>>
    /\ UNCHANGED <<gazeVars, ratioVars, deskVars, loopVars>>

\* close_other_windows, lines 179-297.  Every window whose process is not the
\* stored pid is either skipped (a protected process name), or terminate() is
\* called on its process, which ends it unless psutil refuses.
CloseOthers ==
    /\ IF ~windows_available
       THEN /\ wresp' = [op |-> "close-others", success |-> FALSE,
                         windows_available |-> FALSE]
            /\ UNCHANGED <<alive, fg, lastTerminate>>
       ELSE IF ~CloseOthersTreatsSet
       THEN /\ wresp' = [op |-> "close-others", success |-> FALSE,
                         error |-> "No allowed window set"]
            /\ UNCHANGED <<alive, fg, lastTerminate>>
       ELSE \E terminated \in SUBSET (alive \ {allowed_window_store.pid}) :
            \E closed \in SUBSET terminated :
                /\ alive' = alive \ closed
                /\ fg' = IF fg \in closed THEN 0 ELSE fg
                /\ lastTerminate' = [by |-> "close_others", pids |-> terminated,
                                     allowed |-> allowed_window_store.window]
                /\ wresp' = [op |-> "close-others", success |-> TRUE,
                             closed_count |-> Cardinality(closed)]
    /\ UNCHANGED <<allowed_window_store, windows_available, sa, title>>
    /\ UNCHANGED <<gazeVars, ratioVars, loopVars>>

----------------------------------------------------------------------------
(* Specifications *)

\* The server, on Windows.
Init == InitGaze /\ IdleRatio /\ InitMon /\ InitStore /\ windows_available = TRUE

\* The desktop tools, on any platform.
InitDesktop ==
    InitGaze /\ IdleRatio /\ InitMon /\ InitStore /\ windows_available \in BOOLEAN

\* The server: worker threads serve requests concurrently.
Next ==
    \E t \in Threads :
        \/ Call(t, FewFrames)
        \/ Acquire(t)
        \/ Process(t)
        \/ Analyse(t)
        \/ Return(t)

Spec == Init /\ [][Next]_vars

\* One request at a time, over all the frames.
NextSeq ==
    \/ Call(1, Frames)
    \/ Acquire(1)
    \/ Process(1)
    \/ Analyse(1)
    \/ Return(1)

SpecSeq == Init /\ [][NextSeq]_vars

\* One request at a time, an earlier call kept for comparison.
NextIdem ==
    \/ Call(1, FewFrames)
    \/ Acquire(1)
    \/ Process(1)
    \/ Analyse(1)
    \/ Return(1)
    \/ Remember(1)

SpecIdem == Init /\ [][NextIdem]_vars

\* is_looking_away applied to every landmark set of the grid.
NextRatio == Evaluate

InitLandmarks ==
    InitGaze /\ InitRatio /\ InitMon /\ InitStore /\ windows_available = TRUE

SpecRatio == InitLandmarks /\ [][NextRatio]_vars

\* The standalone monitoring mode.
MonStep ==
    \/ MonOpen
    \/ MonLock
    \/ MonLoopTest
    \/ MonRead
    \/ MonWindow
    \/ MonClassify
    \/ MonDisplay
    \/ MonWaitKey
    \/ MonEnd

NextMon ==
    \/ MonStep
    \/ PressQ
    \/ SwitchWindow
    \/ Retitle

SpecMon == InitDesktop /\ [][NextMon]_vars

\* The loop is the only thread of the process and keeps running.
SpecMonFair == SpecMon /\ WF_vars(MonStep)

\* The /window endpoints of the server, called in any order while the user
\* works on the desktop.
NextWin ==
    \/ SetAllowedRead
    \/ SetAllowedStore
    \/ CheckWindow
    \/ WindowStatus
    \/ ResetWindow
    \/ CloseOthers
    \/ SwitchWindow
    \/ Retitle

SpecWin == InitDesktop /\ [][NextWin]_vars

----------------------------------------------------------------------------
(* Properties *)

Done(t) == pc[t] = "done"

\* The call of thread t got as far as the detector, which returned.
Detected(t) ==
    /\ Done(t)
    /\ frame[t].b64 /\ frame[t].img = "ok" /\ frame[t].det = "ok"

\* Thread t's head-pose call classified the angles of its frame.
Classified(t) ==
    /\ Detected(t)
    /\ fn[t] \in HeadPoseFns
    /\ found[t]
    /\ exc[t] = "none"

LookingTags == {"looking_left", "looking_right", "looking_up", "looking_down"}
ResultTags == LookingTags \cup {"focused", "no_face", "error"}

\* C1: the head-pose functions return exactly one direction, chosen by first
\* match: yaw < -20 looking_left, yaw > 20 looking_right, pitch < -15
\* looking_down, pitch > 15 looking_up, otherwise focused; so |yaw| > 20 gives
\* left or right whatever the pitch, and yaw = +/-20, pitch = +/-15 are focused.
C1_FirstMatchOrder ==
    \A t \in Threads :
        Classified(t) =>
            LET y == frame[t].yaw
                p == frame[t].pitch
                d == response[t].direction
                yawIn == y >= -Deg(20) /\ y <= Deg(20)
                pitchIn == p >= -Deg(15) /\ p <= Deg(15)
            IN  /\ y < -Deg(20) => d = "looking_left"
                /\ y > Deg(20) => d = "looking_right"
                /\ yawIn /\ p < -Deg(15) => d = "looking_down"
                /\ yawIn /\ p > Deg(15) => d = "looking_up"
                /\ yawIn /\ pitchIn => d = "focused"

\* A yaw beyond +20 together with a pitch below -15 was classified looking_right.
C1_Witness ==
    \E t \in Threads :
        /\ Classified(t)
        /\ frame[t].yaw > Deg(20)
        /\ frame[t].pitch < -Deg(15)
        /\ response[t].direction = "looking_right"

\* C2: every call returns a result instead of raising, to the analysis
\* function's caller and to the endpoint's, and when an exception occurred
\* during decode, detection or pose solve the violation flag returned is false.
C2_FailuresHandledLocally ==
    \A t \in Threads :
        Done(t) =>
            /\ ~IsRaised(result[t])
            /\ ~IsRaised(response[t])
            /\ exc[t] # "none" =>
                /\ response[t].violation = FALSE
                /\ fn[t] = "verify_gaze" => result[t].value = FALSE
                /\ fn[t] \in HeadPoseFns => result[t].violation = FALSE

\* process_frame_cv2 has returned after a cv2.error of the pose solve.
C2_Witness ==
    \E t \in Threads :
        /\ Done(t)
        /\ fn[t] = "process_frame_cv2"
        /\ found[t]
        /\ exc[t] = "cv2.error"
        /\ response[t].violation = FALSE

\* C3: a frame whose pose could not be solved (solvePnP reporting no success)
\* never yields violation = true from the head-pose functions.
C3_PoseFailureNeverViolation ==
    \A t \in Threads :
        ( /\ Detected(t)
          /\ fn[t] \in HeadPoseFns
          /\ found[t]
          /\ frame[t].solve \in {"fail", "fail_empty"} )
        => response[t].violation = FALSE

\* C4: an empty or corrupt image buffer given to the head-pose classifier
\* yields violation = false with direction "error" or "no_face" and does not
\* raise; and the direction of every classification result is one of the
\* seven tags.
C4_DirectionTags ==
    \A t \in Threads :
        (Done(t) /\ fn[t] \in HeadPoseFns) =>
            /\ ~IsRaised(response[t])
            /\ response[t].direction \in ResultTags
            /\ frame[t].img \in {"corrupt", "empty"} =>
                /\ response[t].violation = FALSE
                /\ response[t].direction \in {"error", "no_face"}

\* C5: at most one call is inside face_mesh.process at any time.
C5_MutualExclusion ==
    Cardinality({t \in Threads : pc[t] = "process"}) <= 1

\* One call is inside face_mesh.process while another waits for the lock.
C5_Witness ==
    \E t, u \in Threads :
        /\ pc[t] = "process"
        /\ pc[u] = "acquire"

\* C6: in every result of the head-pose classifier the violation flag is true
\* exactly when the direction is looking_left, looking_right, looking_up or
\* looking_down; focused, no_face and error results carry violation = false.
C6_ViolationIffLooking ==
    \A t \in Threads :
        (Done(t) /\ fn[t] \in HeadPoseFns) =>
            /\ response[t].violation = TRUE <=> response[t].direction \in LookingTags
            /\ response[t].direction \in {"focused", "no_face", "error"}
                => response[t].violation = FALSE

\* A looking_up result carrying violation = true has been returned.
C6_Witness ==
    \E t \in Threads :
        /\ Classified(t)
        /\ response[t].direction = "looking_up"
        /\ response[t].violation = TRUE

\* C7: when the detector reports no face for a decoded frame, the head-pose
\* functions return exactly violation = false, direction = "no_face", yaw = 0,
\* pitch = 0, and analyze_gaze returns false without calling is_looking_away.
C7_NoFace ==
    \A t \in Threads :
        (Detected(t) /\ ~found[t]) =>
            /\ fn[t] \in HeadPoseFns =>
                /\ result[t].violation = FALSE
                /\ result[t].direction = "no_face"
                /\ result[t].yaw = 0
                /\ result[t].pitch = 0
                /\ DOMAIN result[t] \ {"image"} = {"violation", "direction", "yaw", "pitch"}
            /\ fn[t] = "verify_gaze" =>
                /\ result[t] = [value |-> FALSE]
                /\ ~called[t]

\* analyze_gaze has returned for a decoded frame in which no face was found.
C7_Witness ==
    \E t \in Threads :
        /\ Detected(t)
        /\ ~found[t]
        /\ fn[t] = "verify_gaze"
        /\ response[t].violation = FALSE

\* Twice the distance of the nose (landmark 1) from the midpoint of the outer
\* eye corners (landmarks 33 and 263).
Deviation2(lm) == Abs(2 * lm[1].x - (lm[33].x + lm[263].x))

C9_Idempotent ==
    \A t \in Threads :
        (Done(t) /\ memo.fn = fn[t] /\ memo.frame = frame[t]) =>
            response[t] = memo.response

\* C10: once the quit key is signalled the loop eventually terminates and
\* releases the camera, for every sequence of camera read outcomes.
C10_QuitTerminates == keyQ ~> (mpc = "done" /\ cap = "released")

\* C11: in standalone monitoring, whenever the foreground window observed
\* in an iteration belongs to another process than the allowed window,
\* kill_process_by_pid is called on that process and the allowed window is
\* re-activated before the iteration's frame is classified.
C11_SwitchTerminated ==
    (mpc = "classify" /\ wcheck.pid # 0 /\ wcheck.pid # allowed.window) =>
        /\ wcheck.kill = wcheck.pid
        /\ wcheck.activate

\* C12: the service never calls terminate on the process that owns the
\* allowed window, neither from the monitoring loop nor from
\* /window/close-others, also when the allowed pid was recorded as None or
\* the allowed window's title changes.
C12_AllowedNeverTerminated == lastTerminate.allowed \notin lastTerminate.pids

\* C13: after any sequence of /window/set-allowed and /window/reset calls
\* the stored title is None if and only if the stored pid is None, so
\* /window/status reports monitoring_active exactly when /window/check and
\* /window/close-others treat an allowed window as set.
C13_StoreConsistent ==
    /\ (allowed_window_store.title = 0) <=> (allowed_window_store.pid = 0)
    /\ MonitoringActive <=> (CheckTreatsSet /\ CloseOthersTreatsSet)

====
